---- MODULE Spec2Model ----
(***************************************************************************)
(* A model of ryicoh/etcdstore (src/etcdstore.go): a gorilla/sessions      *)
(* store that keeps session data in etcd under lease-bound keys.           *)
(*                                                                         *)
(* The store, one session object, the etcd key space, the client's cookie  *)
(* and a clock are the state; New, Save and Delete are the handlers, each  *)
(* one atomic action that runs the whole handler, backend calls included.  *)
(* A behaviour is any sequence of at most MaxOps operations.               *)
(* Further specifications cover what one request at a time cannot show:    *)
(* SpecAmbiguous (a Get answered with several records), SpecAnyKeys (a     *)
(* store without codecs), SpecDefaultAge (DefaultMaxAge reassigned),       *)
(* SpecSessions (two session objects) and SpecConcurrent (two save calls   *)
(* interleaving between Grant and Put).                                    *)
(* etcd, securecookie and the browser are the environment: they are        *)
(* modelled by what the code relies on (Grant/Put/Get/Delete, token        *)
(* signing and age validation, Set-Cookie replacement).                    *)
(***************************************************************************)
EXTENDS Integers, Sequences, FiniteSets, TLC

VARIABLES
    maxLength,      \* EtcdStore.maxLength
    serializer,     \* EtcdStore.serializer: "gob" or "json"
    options,        \* EtcdStore.options (only MaxAge is read by the handlers)
    Codecs,         \* EtcdStore.Codecs: sequence of [key, maxAge]
    session,        \* the request's *sessions.Session: [ID, Values, MaxAge, IsNew]
    kv,             \* etcd key space: set of [key, value, lease]
    now,            \* the clock, in seconds
    jar,            \* the cookie the client holds for the session name
    saved,          \* history: the record and value map of the last persisting Save
    last,           \* history: the last handler run, its backend calls and its result
    steps,          \* operations performed so far
    defaultMaxAge,  \* EtcdStore.DefaultMaxAge
    other,          \* a second request's *sessions.Session
    sharing,        \* the session objects whose Options point at the store's options
    inflight        \* the save calls running concurrently, each between its steps

vars == <<maxLength, serializer, options, Codecs, session, kv, now, jar, saved, last, steps,
          defaultMaxAge, other, sharing, inflight>>

(***************************************************************************)
(* Bounds and input domains                                                *)
(***************************************************************************)
\* operations (handler runs, configuration calls, caller assignments, clock
\* ticks) in one behaviour, and seconds on the clock
MaxOps == 5
MaxTime == 2

\* identifiers GenerateRandomKey can produce (two stand for the 2^256)
IDs == {"a", "b"}

\* value-map keys that are Go strings; "#7" below stands for the int key 7
StringKeys == {"foo"}

\* entries the caller stores: "foo" -> "bar", "foo" -> int 1, int 7 -> "bar"
\* (values are tagged with their Go type: s string, i int, f float64)
CallerEntries == {<<"foo", "s:bar">>, <<"foo", "i:1">>, <<"#7", "s:bar">>}

\* Options.MaxAge values a caller assigns to a session
CallerAges == {-1, 0}

\* arguments of SetMaxLength and SetMaxAge
LengthArgs == {-1, 0, 10}
MaxAgeArgs == {1}

\* the MaxAge of the options handed to Options
OptionsArgs == {2}

\* values a caller assigns to the store's DefaultMaxAge
DefaultAgeArgs == {0}

\* key pairs handed to NewEtcdStore; without any, the store has no codec
KeyPairConfigs == {<<"k1">>}
KeyPairConfigsAny == {<<>>, <<"k1">>}

(***************************************************************************)
(* Program constants                                                       *)
(***************************************************************************)
sessionExpire == 86400 * 30
DefaultMaxAge == 60 * 20
keyPrefix == "session_"
nil == "nil"

(***************************************************************************)
(* Values of the model                                                     *)
(***************************************************************************)
\* a cookie value: the empty string, or a securecookie token carrying the
\* identifier, its creation time and the hash key that signed it
EmptyValue == [id |-> "", ts |-> 0, key |-> ""]
\* a syntactically valid token that no configured key signed
Forged == [id |-> "a", ts |-> 0, key |-> "bad"]

NoCookie == [set |-> FALSE, value |-> EmptyValue, maxAge |-> 0]
NoLease == [id |-> 0, ttl |-> 0, exp |-> 0]
NoPayload == [enc |-> "", m |-> <<>>]
NoRecord == [key |-> "", value |-> NoPayload, lease |-> NoLease]
BlankSession == [ID |-> "", Values |-> <<>>, MaxAge |-> 0, IsNew |-> TRUE]
NoSaved == [set |-> FALSE, rec |-> NoRecord, V |-> <<>>, ser |-> "", cookie |-> EmptyValue]
Idle == [op |-> "none", err |-> nil, calls |-> <<>>, cookie |-> NoCookie,
         pre |-> BlankSession, req |-> NoCookie, after |-> "none"]

\* the requests whose save calls run concurrently
Procs == {"p", "q"}

\* one running save: its position, its session, and what it holds so far
\* (serialized payload, granted lease, result, place among the Puts)
NoSave == [pc |-> "idle", sess |-> BlankSession, b |-> NoPayload, lease |-> NoLease,
           err |-> nil, put |-> 0]
NoSaves == [p \in Procs |-> NoSave]

Call(c, ok, key, ttl) == [call |-> c, ok |-> ok, key |-> key, ttl |-> ttl]

(***************************************************************************)
(* Serializers                                                             *)
(***************************************************************************)
\* encoding/json: a string is written quoted, every number as its digits
JSONMarshalValue(v) == IF v \in {"i:1", "f:1"} THEN "n:1" ELSE v
\* encoding/json into interface{}: every number comes back as a float64
JSONUnmarshalValue(v) == IF v = "n:1" THEN "f:1" ELSE v

\* m with the entries of d written over it
Merge(m, d) ==
    [k \in DOMAIN m \cup DOMAIN d |-> IF k \in DOMAIN d THEN d[k] ELSE m[k]]

\* (variant: entries with a non-string key are left out)
JSONSerializeSkipping(Values) ==
    [err |-> nil,
     b |-> [enc |-> "json",
            m |-> [k \in DOMAIN Values \cap StringKeys |-> JSONMarshalValue(Values[k])]]]

JSONSerialize(Values) ==
    IF \E k \in DOMAIN Values : k \notin StringKeys
    THEN [err |-> "serialize", b |-> NoPayload]
    ELSE [err |-> nil,
          b |-> [enc |-> "json",
                 m |-> [k \in DOMAIN Values |-> JSONMarshalValue(Values[k])]]]

JSONDeserialize(d, Values) ==
    IF d.enc # "json"
    THEN [err |-> "deserialize", Values |-> Values]
    ELSE [err |-> nil,
          Values |-> Merge(Values, [k \in DOMAIN d.m |-> JSONUnmarshalValue(d.m[k])])]

GobSerialize(Values) == [err |-> nil, b |-> [enc |-> "gob", m |-> Values]]

\* gob decodes into the map ss.Values already holds
GobDeserialize(d, Values) ==
    IF d.enc # "gob"
    THEN [err |-> "deserialize", Values |-> Values]
    ELSE [err |-> nil, Values |-> Merge(Values, d.m)]

Serialize(Values) ==
    IF serializer = "json" THEN JSONSerialize(Values) ELSE GobSerialize(Values)

Deserialize(d, Values) ==
    IF serializer = "json" THEN JSONDeserialize(d, Values) ELSE GobDeserialize(d, Values)

\* len(b): the bytes of the encoded value map.  JSON: the braces, and per
\* entry the quoted key, the colon and the value.  gob: the description of
\* map[interface{}]interface{} and the framing, and per interface value its
\* type name, type id, length and data.
JSONValueLen(v) == IF v = "n:1" THEN 1 ELSE 5
GobIfaceLen(v) == IF v \in {"i:1", "#7"} THEN 8 ELSE 14

RECURSIVE EntriesLen(_, _)
EntriesLen(b, S) ==
    IF S = {} THEN 0
    ELSE LET k == CHOOSE x \in S : TRUE
         IN (IF b.enc = "json"
             THEN 6 + JSONValueLen(b.m[k])
             ELSE GobIfaceLen(k) + GobIfaceLen(b.m[k]))
            + EntriesLen(b, S \ {k})

ByteLen(b) ==
    IF b.enc = "json"
    THEN 2 + EntriesLen(b, DOMAIN b.m)
           + (IF DOMAIN b.m = {} THEN 0 ELSE Cardinality(DOMAIN b.m) - 1)
    ELSE 20 + EntriesLen(b, DOMAIN b.m)

(***************************************************************************)
(* securecookie: EncodeMulti / DecodeMulti                                 *)
(***************************************************************************)
\* one codec's Decode: the signature must be this codec's, and the token
\* not older than the codec's maxAge (0: no age check)
CodecAccepts(c, value) ==
    /\ value.key = c.key
    /\ ~(c.maxAge # 0 /\ value.ts < now - c.maxAge)

DecodeMulti(value) ==
    IF \E i \in 1..Len(Codecs) : CodecAccepts(Codecs[i], value)
    THEN [err |-> nil, id |-> value.id]
    ELSE [err |-> "decode", id |-> ""]

EncodeMulti(id) ==
    IF Codecs = <<>>
    THEN [err |-> "encode", value |-> EmptyValue]
    ELSE [err |-> nil, value |-> [id |-> id, ts |-> now, key |-> Codecs[1].key]]

(***************************************************************************)
(* The etcd client.  f names the call the backend fails in this handler    *)
(* run ("none": the backend is reachable throughout).                      *)
(***************************************************************************)
\* lease IDs are never handed out twice: those bound to a record and those
\* granted to a save that has not Put yet are taken
UsedLeases == {r.lease.id : r \in kv} \cup {inflight[p].lease.id : p \in Procs}
FreshLeaseID == CHOOSE n \in 1..(Cardinality(UsedLeases) + 1) :
                    /\ n \notin UsedLeases
                    /\ \A m \in 1..(n - 1) : m \in UsedLeases

ClientGrant(ttl, f) ==
    IF f = "Grant"
    THEN [err |-> "etcd:Grant", lease |-> NoLease]
    ELSE [err |-> nil, lease |-> [id |-> FreshLeaseID, ttl |-> ttl, exp |-> now + ttl]]

ClientPut(key, value, lease, f) ==
    IF f = "Put"
    THEN [err |-> "etcd:Put", kv |-> kv]
    ELSE [err |-> nil,
          kv |-> {r \in kv : r.key # key}
                   \cup {[key |-> key, value |-> value, lease |-> lease]}]

ClientGet(key, f) ==
    IF f = "Get"
    THEN [err |-> "etcd:Get", Kvs |-> {}]
    ELSE [err |-> nil, Kvs |-> {r \in kv : r.key = key}]

ClientDelete(key, f) ==
    IF f = "Delete"
    THEN [err |-> "etcd:Delete", deleted |-> 0, kv |-> kv]
    ELSE [err |-> nil,
          deleted |-> Cardinality({r \in kv : r.key = key}),
          kv |-> {r \in kv : r.key # key}]

(***************************************************************************)
(* EtcdStore: the private helpers save, load and delete                    *)
(***************************************************************************)
StoreKey(id) == keyPrefix \o id

\* (variant: the size check left out)
TooBigNever(b) == FALSE

\* save: the size check on the serialized value map
TooBig(b) == maxLength # 0 /\ ByteLen(b) > maxLength

\* (variant: every lease gets the store's default TTL)
LeaseAgeDefault(MaxAge) == DefaultMaxAge

\* save: the TTL asked of the lease
LeaseAge(MaxAge) == IF MaxAge = 0 THEN defaultMaxAge ELSE MaxAge

\* (variant: the Put's error dropped)
PutErrMasked(p) == nil

\* save: what the Put's outcome becomes for the caller
PutErr(p) == p.err

\* (variant: the Put is not bound to the lease)
PutLeaseNone(lease) == NoLease

\* save: clientv3.WithLease(lease.ID), the lease the Put binds the key to
PutLease(lease) == lease

save(sess, f) ==
    LET age == LeaseAge(sess.MaxAge)
        key == StoreKey(sess.ID)
        Stored(ser, g, p) ==
            [err |-> PutErr(p),
             calls |-> <<Call("Grant", TRUE, "", age), Call("Put", p.err = nil, key, age)>>,
             kv |-> p.kv]
        Granted(ser, g) ==
            IF g.err # nil
            THEN [err |-> g.err, calls |-> <<Call("Grant", FALSE, "", age)>>, kv |-> kv]
            ELSE Stored(ser, g, ClientPut(key, ser.b, PutLease(g.lease), f))
        Serialized(ser) ==
            IF ser.err # nil
            THEN [err |-> ser.err, calls |-> <<>>, kv |-> kv]
            ELSE IF TooBig(ser.b)
            THEN [err |-> "too_big", calls |-> <<>>, kv |-> kv]
            ELSE Granted(ser, ClientGrant(age, f))
    IN  Serialized(Serialize(sess.Values))

\* (variant: only an empty answer counts as no data)
NoDataOnlyEmpty(Kvs) == Kvs = {}

\* load: "no data was associated with this key"
NoData(Kvs) == Cardinality(Kvs) # 1

\* (variant: a record that is read gets a new lease of the same TTL)
loadRenewing(sess, f) ==
    LET key == StoreKey(sess.ID)
        Renewed(r, d) ==
            [ok |-> TRUE, err |-> d.err, Values |-> d.Values,
             calls |-> <<Call("Get", TRUE, key, 0), Call("Grant", TRUE, "", r.lease.ttl)>>]
        Got(data) ==
            IF data.err # nil \/ NoData(data.Kvs)
            THEN [ok |-> FALSE, err |-> data.err, Values |-> sess.Values,
                  calls |-> <<Call("Get", data.err = nil, key, 0)>>]
            ELSE Renewed(CHOOSE r \in data.Kvs : TRUE,
                         Deserialize((CHOOSE r \in data.Kvs : TRUE).value, sess.Values))
    IN  Got(ClientGet(key, f))

load(sess, f) ==
    LET key == StoreKey(sess.ID)
        Decoded(d) ==
            [ok |-> TRUE, err |-> d.err, Values |-> d.Values,
             calls |-> <<Call("Get", TRUE, key, 0)>>]
        Got(data) ==
            IF data.err # nil
            THEN [ok |-> FALSE, err |-> data.err, Values |-> sess.Values,
                  calls |-> <<Call("Get", FALSE, key, 0)>>]
            ELSE IF NoData(data.Kvs)
            THEN [ok |-> FALSE, err |-> nil, Values |-> sess.Values,
                  calls |-> <<Call("Get", TRUE, key, 0)>>]
            ELSE Decoded(Deserialize((CHOOSE r \in data.Kvs : TRUE).value, sess.Values))
    IN  Got(ClientGet(key, f))

\* (variant: a failed backend Delete is reported as success)
DeleteErrMasked(d) == nil

\* (variant: deleting a key that is not there is reported as an error)
DeleteErrIfMissing(d) == IF d.err = nil /\ d.deleted = 0 THEN "not_found" ELSE d.err

\* delete, Delete: what the backend Delete's outcome becomes for the caller
DeleteErr(d) == d.err

\* (variant: delete clears the value map, as Delete does)
ValuesCleared(Values) == <<>>

\* delete leaves the session's value map as it is
ValuesAfterdelete(Values) == Values

delete(sess, f) ==
    LET key == StoreKey(sess.ID)
        Deleted(d, err) ==
            IF err # nil
            THEN [err |-> err, calls |-> <<Call("Delete", d.err = nil, key, 0)>>,
                  kv |-> d.kv, Values |-> sess.Values]
            ELSE [err |-> nil, calls |-> <<Call("Delete", d.err = nil, key, 0)>>,
                  kv |-> d.kv, Values |-> ValuesAfterdelete(sess.Values)]
        Called(d) == Deleted(d, DeleteErr(d))
    IN  Called(ClientDelete(key, f))

(***************************************************************************)
(* EtcdStore: New, Save, Delete                                            *)
(***************************************************************************)
\* (variant: load runs whatever DecodeMulti returned)
ShouldLoadAlways(errDecode) == TRUE

\* New: load runs only for a cookie whose identifier decoded
ShouldLoad(errDecode) == errDecode = nil

\* (variant: IsNew is never cleared)
IsNewAlways(ok, err) == TRUE

\* (variant: a record that was found clears IsNew, decoded or not)
IsNewOnlyWithoutData(ok, err) == ~ok

\* New: "not new if no error and data available"
IsNewAfterLoad(ok, err) == ~(err = nil /\ ok)

New(req, f) ==
    LET fresh == [ID |-> "", Values |-> <<>>, MaxAge |-> options.MaxAge, IsNew |-> TRUE]
        Loaded(withID, l) ==
            [session |-> [withID EXCEPT !.Values = l.Values,
                                        !.IsNew = IsNewAfterLoad(l.ok, l.err)],
             err |-> l.err, calls |-> l.calls]
        Decoded(dec, withID) ==
            IF ~ShouldLoad(dec.err)
            THEN [session |-> withID, err |-> dec.err, calls |-> <<>>]
            ELSE Loaded(withID, load(withID, f))
        WithCookie(dec) == Decoded(dec, [fresh EXCEPT !.ID = dec.id])
    IN  IF ~req.set
        THEN [session |-> fresh, err |-> nil, calls |-> <<>>]
        ELSE WithCookie(DecodeMulti(req.value))

\* (variant: only a negative max-age marks the session for deletion)
MarkedOnlyNegative(MaxAge) == MaxAge < 0

\* (variant: only a zero max-age marks the session for deletion)
MarkedOnlyZero(MaxAge) == MaxAge = 0

\* Save: "Marked for deletion."
MarkedForDeletion(MaxAge) == MaxAge <= 0

\* (variant: every Save draws a new identifier)
NeedsIDAlways(ID) == TRUE

\* Save: an identifier is generated only for a session that has none
NeedsID(ID) == ID = ""

\* http.SetCookie(w, sessions.NewCookie(name, value, options))
SetCookie(value, MaxAge) == [set |-> TRUE, value |-> value, maxAge |-> MaxAge]

Save(sess, id, f) ==
    LET Removed(del) ==
            IF del.err # nil
            THEN [session |-> sess, err |-> del.err, calls |-> del.calls,
                  kv |-> del.kv, cookie |-> NoCookie]
            ELSE [session |-> [sess EXCEPT !.Values = del.Values], err |-> nil,
                  calls |-> del.calls, kv |-> del.kv,
                  cookie |-> SetCookie(EmptyValue, sess.MaxAge)]
        Encoded(withID, sv, enc) ==
            IF enc.err # nil
            THEN [session |-> withID, err |-> enc.err, calls |-> sv.calls,
                  kv |-> sv.kv, cookie |-> NoCookie]
            ELSE [session |-> withID, err |-> nil, calls |-> sv.calls,
                  kv |-> sv.kv, cookie |-> SetCookie(enc.value, withID.MaxAge)]
        Stored(withID, sv) ==
            IF sv.err # nil
            THEN [session |-> withID, err |-> sv.err, calls |-> sv.calls,
                  kv |-> sv.kv, cookie |-> NoCookie]
            ELSE Encoded(withID, sv, EncodeMulti(withID.ID))
        Keyed(withID) == Stored(withID, save(withID, f))
    IN  IF MarkedForDeletion(sess.MaxAge)
        THEN Removed(delete(sess, f))
        ELSE Keyed(IF NeedsID(sess.ID) THEN [sess EXCEPT !.ID = id] ELSE sess)

\* (variant: the cookie keeps the session's max-age)
KeepMaxAge(MaxAge) == MaxAge

\* Delete: the max-age of the cookie it sets ("Set cookie to expire.")
ExpiringMaxAge(MaxAge) == -1

Delete(sess, f) ==
    LET key == StoreKey(sess.ID)
        Deleted(d, err) ==
            IF err # nil
            THEN [session |-> sess, err |-> err,
                  calls |-> <<Call("Delete", d.err = nil, key, 0)>>,
                  kv |-> d.kv, cookie |-> NoCookie]
            ELSE [session |-> [sess EXCEPT !.Values = <<>>], err |-> nil,
                  calls |-> <<Call("Delete", d.err = nil, key, 0)>>,
                  kv |-> d.kv,
                  cookie |-> SetCookie(EmptyValue, ExpiringMaxAge(sess.MaxAge))]
        Called(d) == Deleted(d, DeleteErr(d))
    IN  Called(ClientDelete(key, f))

\* every operation of a behaviour counts against MaxOps
StepCount == steps < MaxOps /\ steps' = steps + 1

\* an operation that has no part in options aliasing, the second session,
\* the DefaultMaxAge field or the concurrent saves
Step == StepCount /\ UNCHANGED <<defaultMaxAge, other, sharing, inflight>>

(***************************************************************************)
(* Configuration                                                           *)
(***************************************************************************)
NewEtcdStore(keyPairs) ==
    /\ maxLength = 4096
    /\ serializer = "gob"
    /\ options = [MaxAge |-> sessionExpire]
    /\ defaultMaxAge = DefaultMaxAge
    /\ Codecs = [i \in 1..Len(keyPairs) |-> [key |-> keyPairs[i], maxAge |-> 86400 * 30]]

SetMaxLength(l) ==
    /\ maxLength' = IF l >= 0 THEN l ELSE maxLength
    /\ last' = Idle
    /\ Step
    /\ UNCHANGED <<serializer, options, Codecs, session, kv, now, jar, saved>>

SetSerializer(ss) ==
    /\ serializer' = ss
    /\ last' = Idle
    /\ Step
    /\ UNCHANGED <<maxLength, options, Codecs, session, kv, now, jar, saved>>

\* a session object after v is written to the store's options.MaxAge
SeenBy(who, sess, v) == IF who \in sharing THEN [sess EXCEPT !.MaxAge = v] ELSE sess

SetMaxAge(v) ==
    /\ options' = [options EXCEPT !.MaxAge = v]
    /\ Codecs' = [i \in DOMAIN Codecs |-> [Codecs[i] EXCEPT !.maxAge = v]]
    /\ session' = SeenBy("session", session, v)
    /\ other' = SeenBy("other", other, v)
    /\ last' = Idle
    /\ StepCount
    /\ UNCHANGED <<maxLength, serializer, kv, now, jar, saved, defaultMaxAge, sharing, inflight>>

\* Options: s.options = opts.ToGorillaOptions(), a new struct that no session
\* object points at; the codecs are not touched
Options(opts) ==
    /\ options' = [MaxAge |-> opts]
    /\ sharing' = {}
    /\ last' = Idle
    /\ StepCount
    /\ UNCHANGED <<maxLength, serializer, Codecs, session, kv, now, jar, saved,
                   defaultMaxAge, other, inflight>>

(***************************************************************************)
(* The caller, between New and Save                                        *)
(***************************************************************************)
\* session.Values[k] = v
CallerSetValue(k, v) ==
    /\ session' = [session EXCEPT !.Values = Merge(session.Values, [x \in {k} |-> v])]
    /\ last' = Idle
    /\ Step
    /\ UNCHANGED <<maxLength, serializer, options, Codecs, kv, now, jar, saved>>

\* session.Options.MaxAge = a: the write goes to the struct the session's
\* Options pointer names, and shows wherever that struct is shared
CallerSetMaxAge(a) ==
    /\ session' = [session EXCEPT !.MaxAge = a]
    /\ options' = IF "session" \in sharing THEN [options EXCEPT !.MaxAge = a] ELSE options
    /\ other' = IF "session" \in sharing THEN SeenBy("other", other, a) ELSE other
    /\ last' = Idle
    /\ StepCount
    /\ UNCHANGED <<maxLength, serializer, Codecs, kv, now, jar, saved,
                   defaultMaxAge, sharing, inflight>>

\* the same assignment on the second session object
OtherSetMaxAge(a) ==
    /\ other' = [other EXCEPT !.MaxAge = a]
    /\ options' = IF "other" \in sharing THEN [options EXCEPT !.MaxAge = a] ELSE options
    /\ session' = IF "other" \in sharing THEN SeenBy("session", session, a) ELSE session
    /\ last' = Idle
    /\ StepCount
    /\ UNCHANGED <<maxLength, serializer, Codecs, kv, now, jar, saved,
                   defaultMaxAge, sharing, inflight>>

\* store.DefaultMaxAge = v (an exported field)
CallerSetDefaultMaxAge(v) ==
    /\ defaultMaxAge' = v
    /\ last' = Idle
    /\ StepCount
    /\ UNCHANGED <<maxLength, serializer, options, Codecs, session, kv, now, jar, saved,
                   other, sharing, inflight>>

(***************************************************************************)
(* Requests                                                                *)
(***************************************************************************)
\* what a request can carry for the session name: nothing, the cookie the
\* client holds, or a forged token
Requests ==
    {NoCookie, SetCookie(Forged, 0)} \cup (IF jar.set THEN {jar} ELSE {})

\* the client's cookie after a response: a Set-Cookie with a negative
\* max-age removes it, any other replaces it
JarAfter(cookie) ==
    IF ~cookie.set THEN jar
    ELSE IF cookie.maxAge < 0 THEN NoCookie
    ELSE cookie

\* history: what the handler run just before this one did to the session's record
Previous ==
    IF last.err = nil /\ (last.op = "Delete" \/ (last.op = "Save" /\ last.pre.MaxAge <= 0))
    THEN "deleted"
    ELSE "none"

\* securecookie.GenerateRandomKey draws only for a session without an ID
RandomKeys == IF NeedsID(session.ID) THEN IDs ELSE {session.ID}

\* (variant: the session is handed the store's own options)
SharesOptions == FALSE

\* New: "options := *s.options; session.Options = &options", a copy
CopiesOptions == TRUE

\* the session objects pointing at the store's options once New has made who
Pointing(who) == IF CopiesOptions THEN sharing \ {who} ELSE sharing \cup {who}

HandleNew(req, f) ==
    \E r \in {New(req, f)} :
        /\ session' = r.session
        /\ sharing' = Pointing("session")
        /\ last' = [op |-> "New", err |-> r.err, calls |-> r.calls, cookie |-> NoCookie,
                    pre |-> session, req |-> req, after |-> Previous]
        /\ StepCount
        /\ UNCHANGED <<maxLength, serializer, options, Codecs, kv, now, jar, saved,
                       defaultMaxAge, other, inflight>>

\* New for a second request
HandleNewOther(req, f) ==
    \E r \in {New(req, f)} :
        /\ other' = r.session
        /\ sharing' = Pointing("other")
        /\ last' = Idle
        /\ StepCount
        /\ UNCHANGED <<maxLength, serializer, options, Codecs, session, kv, now, jar, saved,
                       defaultMaxAge, inflight>>

HandleSave(id, f) ==
    \E r \in {Save(session, id, f)} :
      LET persisted == r.cookie.set /\ Len(r.calls) = 2 /\ r.calls[2].ok IN
        /\ session' = r.session
        /\ kv' = r.kv
        /\ jar' = JarAfter(r.cookie)
        /\ saved' = IF persisted
                    THEN [set |-> TRUE,
                          rec |-> CHOOSE x \in r.kv : x.key = r.calls[2].key,
                          V |-> session.Values,
                          ser |-> serializer,
                          cookie |-> r.cookie.value]
                    ELSE saved
        /\ last' = [op |-> "Save", err |-> r.err, calls |-> r.calls, cookie |-> r.cookie,
                    pre |-> session, req |-> NoCookie, after |-> Previous]
        /\ Step
        /\ UNCHANGED <<maxLength, serializer, options, Codecs, now>>

HandleDelete(f) ==
    \E r \in {Delete(session, f)} :
        /\ session' = r.session
        /\ kv' = r.kv
        /\ jar' = JarAfter(r.cookie)
        /\ last' = [op |-> "Delete", err |-> r.err, calls |-> r.calls, cookie |-> r.cookie,
                    pre |-> session, req |-> NoCookie, after |-> Previous]
        /\ Step
        /\ UNCHANGED <<maxLength, serializer, options, Codecs, now, saved>>

(***************************************************************************)
(* Time: a second passes; etcd removes the keys of every expired lease     *)
(***************************************************************************)
Tick ==
    /\ now < MaxTime
    /\ now' = now + 1
    /\ kv' = {r \in kv : r.lease.exp > now + 1}
    /\ last' = Idle
    /\ Step
    /\ UNCHANGED <<maxLength, serializer, options, Codecs, session, jar, saved>>

(***************************************************************************)
(* save, step by step: two requests holding the same session identifier    *)
(* run save concurrently.  Grant and Put are separate round trips to etcd, *)
(* so the two calls interleave between them.                               *)
(***************************************************************************)
\* value maps and max-ages of the two sessions
ConcurrentValues == {[k \in {"foo"} |-> "s:bar"], [k \in {"foo"} |-> "i:1"]}
ConcurrentAges == {sessionExpire, 3600}

\* the record an earlier Save of the still empty session "a" left
FirstRecord ==
    [key |-> StoreKey("a"), value |-> GobSerialize(<<>>).b,
     lease |-> [id |-> 1, ttl |-> sessionExpire, exp |-> sessionExpire]]

\* save up to and including its Grant
SaveGrant(p, f) ==
    LET sv == inflight[p]
        Granted(ser, g) ==
            IF g.err # nil
            THEN [sv EXCEPT !.pc = "done", !.err = g.err]
            ELSE [sv EXCEPT !.pc = "granted", !.b = ser.b, !.lease = g.lease]
        Serialized(ser) ==
            IF ser.err # nil
            THEN [sv EXCEPT !.pc = "done", !.err = ser.err]
            ELSE IF TooBig(ser.b)
            THEN [sv EXCEPT !.pc = "done", !.err = "too_big"]
            ELSE Granted(ser, ClientGrant(LeaseAge(sv.sess.MaxAge), f))
    IN  /\ sv.pc = "save"
        /\ inflight' = [inflight EXCEPT ![p] = Serialized(Serialize(sv.sess.Values))]
        /\ UNCHANGED <<maxLength, serializer, options, Codecs, session, kv, now, jar, saved,
                       last, steps, defaultMaxAge, other, sharing>>

\* the Puts that have been stored so far
PutsDone == Cardinality({q \in Procs : inflight[q].put > 0})

\* save's Put, and its return
SavePut(p, f) ==
    LET sv == inflight[p] IN
    /\ sv.pc = "granted"
    /\ \E r \in {ClientPut(StoreKey(sv.sess.ID), sv.b, PutLease(sv.lease), f)} :
          /\ kv' = r.kv
          /\ inflight' = [inflight EXCEPT ![p] =
                             [sv EXCEPT !.pc = "done", !.err = PutErr(r),
                                        !.put = IF r.err = nil THEN PutsDone + 1 ELSE 0]]
    /\ UNCHANGED <<maxLength, serializer, options, Codecs, session, now, jar, saved,
                   last, steps, defaultMaxAge, other, sharing>>

\* two requests loaded session "a", their callers filled in the value maps
\* and max-ages, and both are about to save
InitConcurrent ==
    /\ \E kp \in KeyPairConfigs : NewEtcdStore(kp)
    /\ session = New(NoCookie, "none").session
    /\ other = New(NoCookie, "none").session
    /\ sharing = (IF CopiesOptions THEN {} ELSE {"session", "other"})
    /\ kv = {FirstRecord}
    /\ inflight \in [Procs -> {[NoSave EXCEPT !.pc = "save",
                                               !.sess = [ID |-> "a", Values |-> V,
                                                         MaxAge |-> M, IsNew |-> FALSE]] :
                                   V \in ConcurrentValues, M \in ConcurrentAges}]
    /\ now = 0
    /\ jar = NoCookie
    /\ saved = NoSaved
    /\ last = Idle
    /\ steps = 0

NextConcurrent ==
    \/ \E p \in Procs, f \in {"none", "Grant"} : SaveGrant(p, f)
    \/ \E p \in Procs, f \in {"none", "Put"} : SavePut(p, f)

SpecConcurrent == InitConcurrent /\ [][NextConcurrent]_vars

(***************************************************************************)
(* Specification                                                           *)
(***************************************************************************)
InitWith(configs) ==
    /\ \E kp \in configs : NewEtcdStore(kp)
    /\ session = New(NoCookie, "none").session
    /\ other = New(NoCookie, "none").session
    /\ sharing = (IF CopiesOptions THEN {} ELSE {"session", "other"})
    /\ inflight = NoSaves
    /\ kv = {}
    /\ now = 0
    /\ jar = NoCookie
    /\ saved = NoSaved
    /\ last = Idle
    /\ steps = 0

Init == InitWith(KeyPairConfigs)

Next ==
    \/ \E l \in LengthArgs : SetMaxLength(l)
    \/ \E ss \in {"gob", "json"} : SetSerializer(ss)
    \/ \E v \in MaxAgeArgs : SetMaxAge(v)
    \/ \E o \in OptionsArgs : Options(o)
    \/ \E e \in CallerEntries : CallerSetValue(e[1], e[2])
    \/ \E a \in CallerAges : CallerSetMaxAge(a)
    \/ \E req \in Requests, f \in {"none", "Get"} : HandleNew(req, f)
    \/ \E id \in RandomKeys, f \in {"none", "Grant", "Put", "Delete"} : HandleSave(id, f)
    \/ \E f \in {"none", "Delete"} : HandleDelete(f)
    \/ Tick

Spec == Init /\ [][Next]_vars

\* the same operations on a store constructed with or without key pairs
InitAnyKeys == InitWith(KeyPairConfigsAny)

SpecAnyKeys == InitAnyKeys /\ [][Next]_vars

(***************************************************************************)
(* The same operations on a store whose DefaultMaxAge the caller changes.  *)
(***************************************************************************)
NextDefaultAge ==
    \/ Next
    \/ \E v \in DefaultAgeArgs : CallerSetDefaultMaxAge(v)

SpecDefaultAge == Init /\ [][NextDefaultAge]_vars

(***************************************************************************)
(* Two requests, each with its own session object, and the store's         *)
(* max-age configuration changing under them.                              *)
(***************************************************************************)
NextSessions ==
    \/ \E v \in MaxAgeArgs : SetMaxAge(v)
    \/ \E o \in OptionsArgs : Options(o)
    \/ \E a \in CallerAges : CallerSetMaxAge(a)
    \/ \E a \in CallerAges : OtherSetMaxAge(a)
    \/ \E req \in Requests, f \in {"none", "Get"} : HandleNew(req, f)
    \/ \E req \in Requests, f \in {"none", "Get"} : HandleNewOther(req, f)
    \/ \E id \in RandomKeys, f \in {"none", "Grant", "Put", "Delete"} : HandleSave(id, f)

SpecSessions == Init /\ [][NextSessions]_vars

(***************************************************************************)
(* A backend whose answer to a Get holds several records for one key: the  *)
(* answer load guards against with len(data.Kvs) != 1.  etcd itself keeps  *)
(* one record per key, so Spec has no such step; SpecAmbiguous adds it.    *)
(***************************************************************************)
BackendAmbiguous ==
    /\ \E r \in kv :
          kv' = kv \cup {[r EXCEPT !.lease = [r.lease EXCEPT !.id = FreshLeaseID]]}
    /\ last' = Idle
    /\ Step
    /\ UNCHANGED <<maxLength, serializer, options, Codecs, session, now, jar, saved>>

NextAmbiguous == Next \/ BackendAmbiguous

SpecAmbiguous == Init /\ [][NextAmbiguous]_vars

(***************************************************************************)
(* Properties                                                              *)
(***************************************************************************)
\* the records etcd holds under the session's key
Records(id) == {r \in kv : r.key = keyPrefix \o id}

\* the calls of the last handler run that were of kind c
CallsOf(c) == {i \in 1..Len(last.calls) : last.calls[i].call = c}

\* the serialized value map the last Save started from
PrePayload == Serialize(last.pre.Values)

Oversized ==
    /\ PrePayload.err = nil
    /\ maxLength # 0
    /\ ByteLen(PrePayload.b) > maxLength

\* C1: a Save of a session with MaxAge > 0 whose serialized value map is
\* longer than a nonzero maxLength fails with the too-large error and makes
\* no backend call; with maxLength 0 no Save fails for its size.
C1_OversizedNeverReachesBackend ==
    last.op = "Save" /\ last.pre.MaxAge > 0 =>
        /\ Oversized => last.err = "too_big" /\ last.calls = <<>>
        /\ maxLength = 0 => last.err # "too_big"

C1_Witness ==
    /\ last.op = "Save"
    /\ last.pre.MaxAge > 0
    /\ Oversized
    /\ last.pre.Values # <<>>

\* what a value map reads back as: gob returns it as it was, JSON returns
\* every number as a float64
ReadBack(V, ser) ==
    IF ser = "json"
    THEN [k \in DOMAIN V |-> IF V[k] = "i:1" THEN "f:1" ELSE V[k]]
    ELSE V

\* after a successful Save with MaxAge = M > 0: one record under
\* prefix+ID, holding the serialized value map, on a lease of TTL M
SavedRecordHeld ==
    last.op = "Save" /\ last.err = nil /\ last.pre.MaxAge > 0 =>
        /\ Cardinality(Records(session.ID)) = 1
        /\ \A r \in Records(session.ID) :
              /\ r.value = PrePayload.b
              /\ r.lease.id # 0
              /\ r.lease.ttl = last.pre.MaxAge

\* every backend call of the last handler run was answered without error
BackendReachable == \A i \in 1..Len(last.calls) : last.calls[i].ok

\* the last handler run was a New with the cookie of the last persisting
\* Save, under the serializer that Save used and with the backend reachable,
\* and the record that Save put is still in etcd
NewWithSavedCookie ==
    /\ last.op = "New"
    /\ saved.set
    /\ last.req.set
    /\ last.req.value = saved.cookie
    /\ saved.rec \in kv
    /\ serializer = saved.ser
    /\ BackendReachable

C3_ZeroMaxAgeUsesDefault ==
    last.op = "Save" /\ last.err = nil /\ last.pre.MaxAge = 0 =>
        \E r \in Records(session.ID) : r.lease.ttl = DefaultMaxAge

\* C4: a successful Save of a session with MaxAge = -1 leaves no record
\* under prefix+ID, makes no Grant and no Put, and sets a cookie with an
\* empty value and a negative max-age.
C4_ExpirySaveRemovesRecord ==
    last.op = "Save" /\ last.err = nil /\ last.pre.MaxAge = -1 =>
        /\ Records(session.ID) = {}
        /\ CallsOf("Grant") = {}
        /\ CallsOf("Put") = {}
        /\ last.cookie.set
        /\ last.cookie.value = EmptyValue
        /\ last.cookie.maxAge < 0

C4_Witness ==
    /\ last.op = "Save"
    /\ last.err = nil
    /\ last.pre.MaxAge = -1
    /\ saved.set
    /\ saved.rec.key = keyPrefix \o session.ID

\* C5 (as stated): after a Save of a session with MaxAge <= 0 the session's
\* value map is empty.
C5_DeletingSaveClearsValues ==
    last.op = "Save" /\ last.pre.MaxAge <= 0 => session.Values = <<>>

\* C5 (amended): a Save of a session with MaxAge <= 0 leaves the session's
\* value map as it was before the call.
C5_DeletingSaveKeepsValues ==
    last.op = "Save" /\ last.pre.MaxAge <= 0 => session.Values = last.pre.Values

C5_Witness ==
    /\ last.op = "Save"
    /\ last.err = nil
    /\ last.pre.MaxAge <= 0
    /\ last.pre.Values # <<>>
    /\ session.Values = last.pre.Values

Deleting == last.op = "Delete" \/ (last.op = "Save" /\ last.pre.MaxAge <= 0)

\* C7: a deletion (Delete, or Save with MaxAge <= 0) that directly follows a
\* successful deletion of the same session returns no error when the
\* backend is reachable, and leaves no record under prefix+ID.
C7_DeleteTwice ==
    Deleting /\ last.after = "deleted" /\ BackendReachable =>
        /\ last.err = nil
        /\ Records(session.ID) = {}

C7_Witness ==
    /\ last.op = "Delete"
    /\ last.after = "deleted"
    /\ last.err = nil
    /\ last.calls # <<>>

\* the request's cookie value is one no configured codec decodes
Undecodable ==
    /\ last.req.set
    /\ ~ \E i \in 1..Len(Codecs) : CodecAccepts(Codecs[i], last.req.value)

\* C8: a New whose cookie fails identifier decoding returns a new session
\* with an empty value map and the decode error, and makes no backend call.
C8_BadCookieIsNewSession ==
    last.op = "New" /\ Undecodable =>
        /\ session.IsNew
        /\ session.Values = <<>>
        /\ last.err = "decode"
        /\ last.calls = <<>>

\* an expired cookie: signed by the store's key, its record still in etcd
C8_Witness ==
    /\ last.op = "New"
    /\ Undecodable
    /\ last.req.value.key = "k1"
    /\ Records(last.req.value.id) # {}
    /\ last.err = "decode"

\* the Get of the last New was answered, with no record or several
AbsentOrAmbiguous ==
    /\ last.req.set
    /\ ~Undecodable
    /\ Len(last.calls) = 1
    /\ last.calls[1].ok
    /\ Cardinality(Records(session.ID)) # 1

\* C9: a New without a cookie, or whose Get matches no record or more than
\* one, returns a new session with an empty value map and no error.
C9_AbsentOrAmbiguousIsNew ==
    last.op = "New" /\ (~last.req.set \/ AbsentOrAmbiguous) =>
        /\ session.IsNew
        /\ session.Values = <<>>
        /\ last.err = nil

C9_Witness ==
    /\ last.op = "New"
    /\ AbsentOrAmbiguous
    /\ Cardinality(Records(session.ID)) > 1
    /\ session.IsNew

\* C10: when a backend call of a handler run fails, the run returns that
\* call's error and makes no further call; no kind of call is made twice.
C10_BackendErrorsSurface ==
    last.op \in {"New", "Save", "Delete"} =>
        /\ \A i \in 1..Len(last.calls) :
              ~last.calls[i].ok =>
                  /\ i = Len(last.calls)
                  /\ last.err = "etcd:" \o last.calls[i].call
        /\ \A c \in {"Grant", "Put", "Get", "Delete"} : Cardinality(CallsOf(c)) <= 1

C10_Witness ==
    /\ last.op = "Save"
    /\ Len(last.calls) = 2
    /\ ~last.calls[2].ok
    /\ last.err = "etcd:Put"

\* the Get of the last New failed
GetFailed == Len(last.calls) = 1 /\ ~last.calls[1].ok

\* the Get of the last New found the session's record, written by another
\* serializer than the store's
StoredUnreadable ==
    /\ Len(last.calls) = 1
    /\ last.calls[1].ok
    /\ \E r \in Records(session.ID) :
          Records(session.ID) = {r} /\ r.value.enc # serializer

\* the last New decoded its cookie's identifier and its load then failed
LoadFailed ==
    /\ last.op = "New"
    /\ last.req.set
    /\ ~Undecodable
    /\ (GetFailed \/ StoredUnreadable)

\* C11 (as stated): a New whose cookie decodes and whose load fails (the
\* Get fails, or the stored payload cannot be deserialized) returns a new
\* session and no error.
C11_LoadFailureSwallowed ==
    LoadFailed => session.IsNew /\ last.err = nil

\* C11 (amended): a New whose cookie decodes and whose load fails returns a
\* new session together with the load's error: the Get's error, or the
\* deserializer's.
C11_LoadFailureReturned ==
    LoadFailed =>
        /\ session.IsNew
        /\ last.err = IF GetFailed THEN "etcd:Get" ELSE "deserialize"

C11_Witness ==
    /\ LoadFailed
    /\ StoredUnreadable
    /\ session.IsNew
    /\ last.err = "deserialize"

\* C12: in every state reached by the store's configuration operations
\* (SetMaxAge, Options), every codec's age-validation threshold equals the
\* MaxAge of the store's default options.
C12_CodecsTrackMaxAge ==
    \A i \in 1..Len(Codecs) : Codecs[i].maxAge = options.MaxAge

\* C13: a successful Save that persists a record asks for a lease whose TTL
\* is the session's Options.MaxAge as it was when Save ran, binds the record
\* to that lease, and sets a cookie with that same max-age.
C13_LeaseAndCookieSameAge ==
    last.op = "Save" /\ last.err = nil /\ CallsOf("Put") # {} =>
        /\ \A i \in CallsOf("Grant") : last.calls[i].ttl = last.pre.MaxAge
        /\ \A r \in Records(session.ID) : r.lease.ttl = last.pre.MaxAge
        /\ Records(session.ID) # {}
        /\ last.cookie.set
        /\ last.cookie.maxAge = last.pre.MaxAge

C13_Witness ==
    /\ last.op = "Save"
    /\ last.err = nil
    /\ CallsOf("Put") # {}
    /\ last.pre.MaxAge = 1
    /\ last.cookie.maxAge = 1
    /\ \E r \in Records(session.ID) : r.lease.ttl = 1

\* the last handler run was a Save that went to persist a value map with a
\* key that is not a string
SaveOfNonStringKey ==
    /\ last.op = "Save"
    /\ last.pre.MaxAge > 0
    /\ \E k \in DOMAIN last.pre.Values : k \notin StringKeys

C15_NewOnlyReads ==
    [][steps' # steps /\ last'.op = "New" =>
          /\ kv' = kv
          /\ Len(last'.calls) <= 1
          /\ \A i \in 1..Len(last'.calls) : last'.calls[i].call = "Get"]_vars

\* a session loaded a second after its Save, its record and lease as saved
C15_Witness ==
    /\ last.op = "New"
    /\ ~session.IsNew
    /\ last.calls = <<Call("Get", TRUE, keyPrefix \o session.ID, 0)>>
    /\ now > 0
    /\ saved.set
    /\ kv = {saved.rec}

\* the record the save of request p stores: its payload under its lease
RecordOf(p) ==
    [key |-> keyPrefix \o inflight[p].sess.ID,
     value |-> inflight[p].b,
     lease |-> inflight[p].lease]

\* C16: while two saves of the same identifier interleave their Grant and
\* Put steps, the backend holds exactly one record under prefix+ID; a
\* record written by a save pairs that save's payload with the lease
\* granted to that same save; and once both saves have returned, the record
\* is the one of the save whose Put ran last.
C16_LastPutWins ==
    /\ Cardinality(Records("a")) = 1
    /\ \A r \in kv :
          r = FirstRecord \/ \E p \in Procs : inflight[p].put > 0 /\ r = RecordOf(p)
    /\ (\A p \in Procs : inflight[p].pc = "done") =>
          \A p \in Procs :
              inflight[p].put > 0 /\ inflight[p].put = PutsDone => kv = {RecordOf(p)}

\* p was granted its lease first and Put last
C16_Witness ==
    /\ \A p \in Procs : inflight[p].pc = "done" /\ inflight[p].err = nil
    /\ inflight["p"].lease.id < inflight["q"].lease.id
    /\ inflight["q"].put = 1
    /\ inflight["p"].put = 2
    /\ inflight["p"].b # inflight["q"].b
    /\ inflight["p"].lease.ttl # inflight["q"].lease.ttl
    /\ kv = {RecordOf("p")}

\* C17: a Save or Delete that returns an error has set no cookie, whichever
\* step failed (serialization, size check, Grant, Put, Delete, identifier
\* encoding); a cookie is set only by a run that returns no error and whose
\* backend calls all succeeded.
C17_NoCookieOnError ==
    last.op \in {"Save", "Delete"} =>
        /\ last.err # nil => ~last.cookie.set
        /\ last.cookie.set => last.err = nil /\ BackendReachable

\* the record is stored, the identifier cannot be encoded: no cookie
C17_Witness ==
    /\ last.op = "Save"
    /\ last.err = "encode"
    /\ Len(last.calls) = 2
    /\ last.calls[2].ok
    /\ Records(session.ID) # {}
    /\ ~last.cookie.set
    /\ jar = NoCookie

\* the keys the backend holds records under
KeysOf(store) == {r.key : r \in store}

\* C18: a Save gives the session an identifier only if it had none, and
\* then only on the persisting path; Save and Delete leave a non-empty
\* identifier as it is, and New keeps the identifier its cookie decoded to;
\* every backend call of a handler run is addressed to prefix+ID; a Save of
\* a session that has an identifier adds no key but prefix+ID to the
\* backend, which never holds two records under one key.
C18_IdentifierStable ==
    [][steps' # steps /\ last'.op \in {"New", "Save", "Delete"} =>
          /\ last'.op # "New" /\ session.ID # "" => session'.ID = session.ID
          /\ last'.op # "New" /\ session.ID = "" /\ session'.ID # "" =>
                last'.op = "Save" /\ session.MaxAge > 0
          /\ last'.op = "New" /\ last'.err = nil /\ last'.req.set =>
                session'.ID = last'.req.value.id
          /\ \A i \in 1..Len(last'.calls) :
                last'.calls[i].call # "Grant" =>
                    last'.calls[i].key = keyPrefix \o session'.ID
          /\ last'.op = "Save" /\ session.ID # "" =>
                KeysOf(kv') \subseteq KeysOf(kv) \cup {keyPrefix \o session.ID}
          /\ \A id \in IDs : Cardinality({r \in kv' : r.key = keyPrefix \o id}) <= 1]_vars

\* the second Save of a session object that got its identifier from the first
C18_Witness ==
    /\ last.op = "Save"
    /\ last.err = nil
    /\ last.pre.MaxAge > 0
    /\ last.pre.IsNew
    /\ last.pre.ID # ""
    /\ session.ID = last.pre.ID
    /\ Cardinality(kv) = 1
    /\ saved.V # <<>>

\* C19: a session made by New starts with the store's default MaxAge, and
\* from then on its options are its own: a step that changes the store's
\* defaults (SetMaxAge, Options) changes no session, and a step that changes
\* one session's MaxAge changes neither the store's defaults nor the other
\* session.
C19_OptionsArePrivate ==
    [][/\ steps' # steps /\ last'.op = "New" => session'.MaxAge = options.MaxAge
       /\ options' # options => session' = session /\ other' = other
       /\ session'.MaxAge # session.MaxAge => options' = options /\ other' = other
       /\ other'.MaxAge # other.MaxAge => options' = options /\ session' = session]_vars

\* one session marked for deletion, the other as New made it, and the
\* store's max-age changed since
C19_Witness ==
    /\ session.MaxAge = -1
    /\ other.MaxAge = sessionExpire
    /\ options.MaxAge = 1
    /\ last.op = "Save"
    /\ last.err = nil

\* C20: every Grant a Save issues asks for a TTL of at least one second,
\* and so every lease a record is bound to has one, whatever the session's
\* MaxAge and the store's DefaultMaxAge are.
C20_LeaseTTLPositive ==
    /\ \A i \in CallsOf("Grant") : last.calls[i].ttl >= 1
    /\ \A r \in kv : r.lease.ttl >= 1

\* with DefaultMaxAge set to 0: a Save that was granted a lease of TTL 1
C20_Witness ==
    /\ defaultMaxAge = 0
    /\ last.op = "Save"
    /\ last.err = nil
    /\ CallsOf("Grant") # {}
    /\ last.pre.MaxAge = 1
    /\ \E r \in kv : r.lease.ttl = 1

====
